---- MODULE Spec2Model ----
(***************************************************************************)
(* Model of thoth.common.openshift.OpenShift (src/thoth/common/openshift.py) *)
(*                                                                         *)
(* Four specifications share the module:                                   *)
(*   SpecParams  set_template_parameters on a template's parameter list    *)
(*   SpecEnv     _set_env_var on a pod template's env list                 *)
(*   SpecStatus  get_pod_status followed by _status_report                 *)
(*   SpecOps     the namespace-guarded client operations and the requests  *)
(*               they issue                                                *)
(* A specification leaves the variables of the other three at their idle   *)
(* values.                                                                 *)
(***************************************************************************)
EXTENDS Integers, Sequences, FiniteSets, TLC

VARIABLES
    template,       \* the template document handed to set_template_parameters
    before,         \* its parameter list when the last call started
    parameters,     \* the **parameters mapping of the last call
    calls,          \* number of set_template_parameters calls so far
    repeated,       \* the last call repeated the mapping of the call before it
    pod_template,   \* env list of template["spec"]["containers"][0]
    env_before,     \* the env list when the last _set_env_var call started
    env_var,        \* the **env_var mapping of the last call
    env_calls,      \* number of _set_env_var calls so far
    env_repeated,   \* the last call repeated the mapping of the call before it
    response,       \* what the master answers to the pod GET
    status,         \* the dictionary handed to _status_report
    reported_status,\* what _status_report returned (or the exception raised)
    pc,             \* position in get_pod_status_report
    client,         \* the OpenShift object: namespaces and the cached token
    token_reads,    \* how often the token source of the object was read
    op,             \* the operation called last
    args,           \* the arguments of that call the properties look at
    answers,        \* what the master answered during that call
    requests,       \* requests the last operation issued, in order
    outcome,        \* how the last operation ended
    returned        \* what it returned, when it returned

paramVars == <<template, before, parameters, calls, repeated>>
envVars == <<pod_template, env_before, env_var, env_calls, env_repeated>>
statusVars == <<response, status, reported_status, pc>>
opsVars ==
    <<client, token_reads, op, args, answers, requests, outcome, returned>>
vars == <<paramVars, envVars, statusVars, opsVars>>

----------------------------------------------------------------------------
(* Python values: str, int and None, kept apart so that "1" and 1 differ.  *)

PyStr(s) == [t |-> "str", s |-> s, i |-> 0]
PyInt(n) == [t |-> "int", s |-> "", i |-> n]
PyNone == [t |-> "None", s |-> "", i |-> 0]

Digits == <<"0", "1", "2", "3", "4", "5", "6", "7", "8", "9">>

RECURSIVE NatToStr(_)
NatToStr(n) ==
    IF n < 10 THEN Digits[n + 1]
    ELSE NatToStr(n \div 10) \o Digits[(n % 10) + 1]

(* str(value) of Python, as a Python str value *)
str(value) ==
    CASE value.t = "str" -> value
      [] value.t = "int" ->
            PyStr(IF value.i < 0 THEN "-" \o NatToStr(-value.i)
                  ELSE NatToStr(value.i))
      [] value.t = "None" -> PyStr("None")

(* index of the first entry named name, 0 when the for loop finds none *)
FirstIndex(entries, name) ==
    IF \E k \in 1..Len(entries) : entries[k].name = name
    THEN CHOOSE k \in 1..Len(entries) :
            /\ entries[k].name = name
            /\ \A j \in 1..(k - 1) : entries[j].name # name
    ELSE 0

----------------------------------------------------------------------------
(* set_template_parameters                                                 *)

(* str(parameter_value) if parameter_value is not None else "" *)
ParameterValueMutNone(parameter_value) == str(parameter_value)
ParameterValue(parameter_value) ==
    IF parameter_value.t # "None" THEN str(parameter_value) ELSE PyStr("")

(* one iteration of the loop over parameters.items() *)
SetOneParameterMutAll(entries, parameter_name, parameter_value) ==
    IF FirstIndex(entries, parameter_name) # 0
    THEN [k \in 1..Len(entries) |->
            IF entries[k].name = parameter_name
            THEN [entries[k] EXCEPT !.value = ParameterValue(parameter_value)]
            ELSE entries[k]]
    ELSE Append(entries, [name |-> parameter_name,
                          value |-> ParameterValue(parameter_value)])
SetOneParameterMutPrepend(entries, parameter_name, parameter_value) ==
    IF FirstIndex(entries, parameter_name) # 0
    THEN [entries EXCEPT ![FirstIndex(entries, parameter_name)].value =
                            ParameterValue(parameter_value)]
    ELSE <<[name |-> parameter_name,
            value |-> ParameterValue(parameter_value)]>> \o entries
SetOneParameterMutAppend(entries, parameter_name, parameter_value) ==
    Append(entries, [name |-> parameter_name,
                     value |-> ParameterValue(parameter_value)])
SetOneParameter(entries, parameter_name, parameter_value) ==
    IF FirstIndex(entries, parameter_name) # 0
    THEN [entries EXCEPT ![FirstIndex(entries, parameter_name)].value =
                            ParameterValue(parameter_value)]
    ELSE Append(entries, [name |-> parameter_name,
                          value |-> ParameterValue(parameter_value)])

RECURSIVE SetParameterList(_, _)
SetParameterList(entries, params) ==
    IF params = <<>> THEN entries
    ELSE SetParameterList(
            SetOneParameter(entries, Head(params).name, Head(params).value),
            Tail(params))

(* the parameter list the call works on: created empty when absent *)
ParametersOf(tpl) == IF tpl.has_parameters THEN tpl.parameters ELSE <<>>

set_template_parameters(tpl, params) ==
    [has_parameters |-> TRUE,
     parameters |-> SetParameterList(ParametersOf(tpl), params)]

----------------------------------------------------------------------------
(* _set_env_var                                                            *)

SetOneEnvVar(env, env_var_name, env_var_value) ==
    IF FirstIndex(env, env_var_name) # 0
    THEN [env EXCEPT ![FirstIndex(env, env_var_name)].value = env_var_value]
    ELSE Append(env, [name |-> env_var_name, value |-> str(env_var_value)])

RECURSIVE _set_env_var(_, _)
_set_env_var(env, env_vars) ==
    IF env_vars = <<>> THEN env
    ELSE _set_env_var(
            SetOneEnvVar(env, Head(env_vars).name, Head(env_vars).value),
            Tail(env_vars))

----------------------------------------------------------------------------
(* Bounded inputs of the two upserts                                       *)

MaxEntries == 2     \* entries a template starts with
MaxParameters == 2  \* names in one keyword mapping
MaxCalls == 2       \* calls on one template

ParameterNames == {"THOTH_FORCE_SYNC", "THOTH_LOG_ADVISER"}
EntryValues == {PyStr("INFO"), PyStr("1")}
NewValues == {PyStr("INFO"), PyInt(1), PyInt(10), PyNone}

SeqsUpTo(S, n) == UNION {[1..k -> S] : k \in 0..n}

Entries(values) == [name : ParameterNames, value : values]

(* a keyword mapping: ordered, every name once *)
Mappings ==
    {m \in SeqsUpTo(Entries(NewValues), MaxParameters) :
        \A a, b \in 1..Len(m) : a # b => m[a].name # m[b].name}

Templates ==
    {[has_parameters |-> FALSE, parameters |-> <<>>]} \cup
    {[has_parameters |-> TRUE, parameters |-> p] :
        p \in SeqsUpTo(Entries(EntryValues), MaxEntries)}

IdleParams ==
    /\ template = [has_parameters |-> FALSE, parameters |-> <<>>]
    /\ before = <<>>
    /\ parameters = <<>>
    /\ calls = 0
    /\ repeated = FALSE

IdleEnv ==
    /\ pod_template = <<>>
    /\ env_before = <<>>
    /\ env_var = <<>>
    /\ env_calls = 0
    /\ env_repeated = FALSE

IdleStatus ==
    /\ response = [kind |-> "idle"]
    /\ status = <<>>
    /\ reported_status = [raised |-> "idle"]
    /\ pc = "idle"

IdleOps ==
    /\ client = [kind |-> "idle"]
    /\ token_reads = 0
    /\ op = "idle"
    /\ args = [namespace |-> "None", solver |-> "None", optional |-> FALSE,
               job_id |-> "None"]
    /\ answers = [kind |-> "idle"]
    /\ returned = [id |-> "None", solvers |-> <<>>]
    /\ requests = <<>>
    /\ outcome = "idle"

----------------------------------------------------------------------------
(* SpecParams: a caller sets parameters on one template, repeatedly        *)

InitParams ==
    /\ template \in Templates
    /\ before = <<>>
    /\ parameters = <<>>
    /\ calls = 0
    /\ repeated = FALSE
    /\ IdleEnv /\ IdleStatus /\ IdleOps

(* set_template_parameters(template, **m) *)
SetTemplateParameters(m) ==
    /\ calls < MaxCalls
    /\ template' = set_template_parameters(template, m)
    /\ before' = ParametersOf(template)
    /\ parameters' = m
    /\ calls' = calls + 1
    /\ repeated' = FALSE
    /\ UNCHANGED <<envVars, statusVars, opsVars>>

(* the same call once more, with the mapping of the call before *)
RepeatTemplateParameters ==
    /\ calls > 0
    /\ calls < MaxCalls
    /\ template' = set_template_parameters(template, parameters)
    /\ before' = ParametersOf(template)
    /\ parameters' = parameters
    /\ calls' = calls + 1
    /\ repeated' = TRUE
    /\ UNCHANGED <<envVars, statusVars, opsVars>>

NextParams ==
    \/ \E m \in Mappings : SetTemplateParameters(m)
    \/ RepeatTemplateParameters

SpecParams == InitParams /\ [][NextParams]_vars

----------------------------------------------------------------------------
(* SpecEnv: a caller sets environment variables on one pod template        *)

EnvLists == SeqsUpTo(Entries(EntryValues), MaxEntries)

InitEnv ==
    /\ pod_template \in EnvLists
    /\ env_before = <<>>
    /\ env_var = <<>>
    /\ env_calls = 0
    /\ env_repeated = FALSE
    /\ IdleParams /\ IdleStatus /\ IdleOps

(* _set_env_var(template, **m) *)
SetEnvVar(m) ==
    /\ env_calls < MaxCalls
    /\ pod_template' = _set_env_var(pod_template, m)
    /\ env_before' = pod_template
    /\ env_var' = m
    /\ env_calls' = env_calls + 1
    /\ env_repeated' = FALSE
    /\ UNCHANGED <<paramVars, statusVars, opsVars>>

(* the same call once more, with the mapping of the call before *)
RepeatEnvVar ==
    /\ env_calls > 0
    /\ env_calls < MaxCalls
    /\ pod_template' = _set_env_var(pod_template, env_var)
    /\ env_before' = pod_template
    /\ env_var' = env_var
    /\ env_calls' = env_calls + 1
    /\ env_repeated' = TRUE
    /\ UNCHANGED <<paramVars, statusVars, opsVars>>

NextEnv ==
    \/ \E m \in Mappings : SetEnvVar(m)
    \/ RepeatEnvVar

SpecEnv == InitEnv /\ [][NextEnv]_vars

----------------------------------------------------------------------------
(* Dictionaries: sequences of key/value items in insertion order           *)

HasKey(dict, key) == \E k \in 1..Len(dict) : dict[k].key = key

(* dict[key]; only evaluated where the key is present *)
Lookup(dict, key) ==
    dict[CHOOSE k \in 1..Len(dict) : dict[k].key = key].value

(* dict[key] = value on a key that is present *)
Store(dict, key, value) ==
    [k \in 1..Len(dict) |->
        IF dict[k].key = key THEN [key |-> key, value |-> value] ELSE dict[k]]

----------------------------------------------------------------------------
(* get_pod_status                                                          *)

(* state.get("terminated", {}).get("exitCode") == 137 *)
TerminatedExitCodeIs137MutAnyCode(state) ==
    /\ HasKey(state, "terminated")
    /\ HasKey(Lookup(state, "terminated"), "exitCode")
TerminatedExitCodeIs137(state) ==
    /\ HasKey(state, "terminated")
    /\ HasKey(Lookup(state, "terminated"), "exitCode")
    /\ Lookup(Lookup(state, "terminated"), "exitCode") = PyInt(137)

(* the translation of liveness-probe kills, lines 362-372 *)
TranslateKillMutNoRecode(state) == [raised |-> "none", state |-> state]
TranslateKill(state) ==
    IF ~TerminatedExitCodeIs137(state)
    THEN [raised |-> "none", state |-> state]
    ELSE IF ~HasKey(Lookup(state, "terminated"), "reason")
    THEN [raised |-> "KeyError"]
    ELSE IF Lookup(Lookup(state, "terminated"), "reason") = PyStr("Error")
    THEN [raised |-> "none",
          state |-> Store(state, "terminated",
                          Store(Lookup(state, "terminated"), "reason",
                                PyStr("TimeoutKilled")))]
    ELSE [raised |-> "none", state |-> state]

get_pod_status(resp) ==
    IF resp.kind = "not_found"
    THEN [raised |-> "NotFoundException"]
    ELSE IF ~resp.has_container_statuses
    THEN [raised |-> "none", state |-> <<>>]
    ELSE TranslateKill(resp.state)

----------------------------------------------------------------------------
(* _status_report                                                          *)

_TRANSLATION_TABLE ==
    [exitCode |-> "exit_code",
     finishedAt |-> "finished_at",
     reason |-> "reason",
     startedAt |-> "started_at",
     containerID |-> "container",
     message |-> "reason"]

DockerPrefix == "docker://"

(* value[len("docker://"):] if value.startswith("docker://") else value *)
RECURSIVE StripPrefixMutRepeat(_)
StripPrefixMutRepeat(value) ==
    IF /\ Len(value.s) >= Len(DockerPrefix)
       /\ SubSeq(value.s, 1, Len(DockerPrefix)) = DockerPrefix
    THEN StripPrefixMutRepeat(
            PyStr(SubSeq(value.s, Len(DockerPrefix) + 1, Len(value.s))))
    ELSE value
StripPrefix(value) ==
    IF /\ Len(value.s) >= Len(DockerPrefix)
       /\ SubSeq(value.s, 1, Len(DockerPrefix)) = DockerPrefix
    THEN PyStr(SubSeq(value.s, Len(DockerPrefix) + 1, Len(value.s)))
    ELSE value

(* dict.fromkeys(tuple(_TRANSLATION_TABLE.values())) with the state set *)
InitialReportMutPending(state) ==
    [raised |-> "none",
     state |-> IF state = "scheduling" THEN "pending" ELSE state,
     exit_code |-> PyNone, finished_at |-> PyNone, reason |-> PyNone,
     started_at |-> PyNone, container |-> PyNone]
InitialReport(state) ==
    [raised |-> "none", state |-> state,
     exit_code |-> PyNone, finished_at |-> PyNone, reason |-> PyNone,
     started_at |-> PyNone, container |-> PyNone]

(* the loop over status[state].items(), stopping at the first exception *)
RECURSIVE TranslateItems(_, _)
TranslateItems(report, items) ==
    IF items = <<>> THEN report
    ELSE IF Head(items).key = "containerID"
    THEN IF Head(items).value.t # "str"
         THEN [raised |-> "AttributeError"]
         ELSE TranslateItems(
                [report EXCEPT !.container = StripPrefix(Head(items).value)],
                Tail(items))
    ELSE IF Head(items).key \notin DOMAIN _TRANSLATION_TABLE
    THEN [raised |-> "KeyError"]
    ELSE TranslateItems(
            [report EXCEPT ![_TRANSLATION_TABLE[Head(items).key]] =
                                Head(items).value],
            Tail(items))

_status_reportMutEmptyOnly(st) ==
    IF Len(st) = 0
    THEN InitialReport("scheduling")
    ELSE TranslateItems(InitialReport(st[1].key), st[1].value)
_status_report(st) ==
    IF Len(st) # 1
    THEN InitialReport("scheduling")
    ELSE TranslateItems(InitialReport(st[1].key), st[1].value)

----------------------------------------------------------------------------
(* Container states the master can deliver                                 *)

MaxKeys == 2    \* top-level keys of a state dictionary

Absent == [t |-> "absent", s |-> "", i |-> 0]

Item(key, value) ==
    IF value = Absent THEN <<>> ELSE <<[key |-> key, value |-> value]>>

LifecycleKeys == {"waiting", "running", "terminated"}

ExitCodes == {Absent, PyInt(0), PyInt(137)}
Signals == {Absent, PyInt(9)}
Reasons == {Absent, PyStr("Error"), PyStr("OOMKilled"), PyStr("TimeoutKilled")}
Messages == {Absent, PyStr("Back-off pulling image"), PyStr("TimeoutKilled")}
StartedAts == {Absent, PyStr("2018-11-05T10:00:00Z")}
FinishedAts == {Absent, PyStr("2018-11-05T10:05:00Z")}
ContainerIDs ==
    {Absent, PyStr("docker://abc123"), PyStr("abc123"),
     PyStr("cri-o://docker://abc123"), PyStr("docker://docker://abc123")}

(* the fields of a state record in the order the master serialises them,   *)
(* and with 'message' ahead of 'reason'                                    *)
StateRecords ==
    {Item("exitCode", e) \o Item("signal", g)
        \o (IF swap THEN Item("message", m) \o Item("reason", r)
                    ELSE Item("reason", r) \o Item("message", m))
        \o Item("startedAt", sa) \o Item("finishedAt", fa)
        \o Item("containerID", c) :
        e \in ExitCodes, g \in Signals, r \in Reasons, m \in Messages,
        swap \in BOOLEAN, sa \in StartedAts, fa \in FinishedAts,
        c \in ContainerIDs}

(* the records tried under each key of a dictionary with several keys *)
FewStateRecords ==
    {<<>>,
     Item("reason", PyStr("Error")),
     Item("exitCode", PyInt(137)) \o Item("reason", PyStr("Error"))}

StateDicts ==
    {<<>>} \cup
    {<<[key |-> k, value |-> rec]>> : k \in LifecycleKeys, rec \in StateRecords}
    \cup
    {d \in UNION {[1..n -> [key : LifecycleKeys, value : FewStateRecords]] :
                    n \in 2..MaxKeys} :
        \A a, b \in 1..Len(d) : a # b => d[a].key # d[b].key}

Responses ==
    {[kind |-> "not_found", has_container_statuses |-> FALSE, state |-> <<>>],
     [kind |-> "pod", has_container_statuses |-> FALSE, state |-> <<>>]}
    \cup
    {[kind |-> "pod", has_container_statuses |-> TRUE, state |-> d] :
        d \in StateDicts}

----------------------------------------------------------------------------
(* SpecStatus: one pod, asked for its status report                        *)

InitStatus ==
    /\ response \in Responses
    /\ status = <<>>
    /\ reported_status = [raised |-> "idle"]
    /\ pc = "call"
    /\ IdleParams /\ IdleEnv /\ IdleOps

(* get_pod_status_report: get_pod_status, then _status_report on its result *)
GetPodStatusReport ==
    /\ pc = "call"
    /\ LET got == get_pod_status(response) IN
         IF got.raised # "none"
         THEN /\ status' = status
              /\ reported_status' = got
         ELSE /\ status' = got.state
              /\ reported_status' = _status_report(got.state)
    /\ pc' = "report"
    /\ UNCHANGED <<response, paramVars, envVars, opsVars>>

(* _status_report called on a state dictionary as the master delivers it *)
StatusReport ==
    /\ pc = "call"
    /\ response.kind = "pod"
    /\ status' = response.state
    /\ reported_status' = _status_report(response.state)
    /\ pc' = "direct"
    /\ UNCHANGED <<response, paramVars, envVars, opsVars>>

NextStatus ==
    \/ GetPodStatusReport
    \/ StatusReport

SpecStatus == InitStatus /\ [][NextStatus]_vars

----------------------------------------------------------------------------
(* The client and its operations                                           *)

None == "None"

(* `not self.x_namespace` is false *)
Configured(namespace) == namespace # None

(* a request through the cluster client; it authenticates by itself *)
Req(kind, namespace) ==
    [kind |-> kind, namespace |-> namespace, body |-> <<>>, bearer |-> None]

(* a call that returns nothing the properties look at *)
NoValue == [id |-> None, solvers |-> <<>>]

(* how a call ended and what it sent *)
Ended(reqs, how) == [requests |-> reqs, outcome |-> how, value |-> NoValue]

(* a call that returned value after sending reqs *)
Gave(reqs, value) ==
    [requests |-> reqs, outcome |-> "returned", value |-> value]

(* the token property: resolved on first use, then kept in self._token *)
tokenMutNoCache(cl) == cl
token(cl) ==
    IF cl._token # None THEN cl
    ELSE [cl EXCEPT !._token =
            IF cl.in_cluster THEN "service-account-token" ELSE "local-token"]

(* "Bearer {}".format(self.token) *)
Bearer(cl) ==
    IF cl._token # None THEN cl._token
    ELSE IF cl.in_cluster THEN "service-account-token" ELSE "local-token"

(* a request sent with requests.get or requests.post and self.token *)
HttpReq(cl, kind, namespace, body) ==
    [kind |-> kind, namespace |-> namespace, body |-> body,
     bearer |-> Bearer(cl)]

(* response.raise_for_status() raises *)
RaisesForStatus(status_code) == status_code >= 400 /\ status_code < 600

(* _raise_on_invalid_response_size *)
InvalidResponseSizeMutEmpty(templates) == templates = 0
InvalidResponseSize(templates) == templates # 1

(* oc_process: POST the template, raise what raise_for_status raises *)
oc_processMutRetry(cl, namespace, tpl, env) ==
    IF env.process_ok
    THEN Ended(<<HttpReq(cl, "process_template", namespace,
                         ParametersOf(tpl))>>, "returned")
    ELSE Ended(<<HttpReq(cl, "process_template", namespace,
                         ParametersOf(tpl)),
                 HttpReq(cl, "process_template", namespace,
                         ParametersOf(tpl))>>, "HTTPError")
oc_process(cl, namespace, tpl, env) ==
    Ended(<<HttpReq(cl, "process_template", namespace, ParametersOf(tpl))>>,
          IF env.process_ok THEN "returned" ELSE "HTTPError")

(* the call b made after the call a returned *)
Then(a, b) ==
    IF a.outcome # "returned" THEN a
    ELSE [b EXCEPT !.requests = a.requests \o b.requests]

(* ocp_client.resources.get(kind="Template").get(label_selector=...) and   *)
(* _raise_on_invalid_response_size on what it returns                      *)
FetchTemplate(cl, env) ==
    Ended(<<Req("get_template", cl.infra_namespace)>>,
          IF ~env.fetch_ok THEN "ApiException"
          ELSE IF InvalidResponseSize(env.templates) THEN "RuntimeError"
          ELSE "returned")

(* ocp_client.resources.get(...).create(body=template["objects"][k], ...) *)
CreateReq(namespace, k) ==
    [kind |-> "create", namespace |-> namespace,
     body |-> <<[name |-> "objects", value |-> PyInt(k)]>>, bearer |-> None]

(* the first object of the processed template is created *)
Create(namespace, env) ==
    Ended(<<CreateReq(namespace, 0)>>,
          IF env.create_ok THEN "returned" ELSE "ApiException")

(* fetch the template by label in the infra namespace, set the parameters, *)
(* process it in process_ns and create its first object in create_ns       *)
RunTemplateMutProcessFirst(cl, params, process_ns, create_ns, env) ==
    Then(FetchTemplate(cl, env),
         Then(oc_process(cl, process_ns, env.template, env),
              Create(create_ns, env)))
RunTemplate(cl, params, process_ns, create_ns, env) ==
    Then(FetchTemplate(cl, env),
         Then(oc_process(cl, process_ns,
                         set_template_parameters(env.template, params), env),
              Create(create_ns, env)))

(* a keyword argument *)
Kw(name, value) == [name |-> name, value |-> value]

(* the objects run_solver creates: all, or those of the requested solver *)
SolverObjects(objects, solver) ==
    SelectSeq(objects, LAMBDA component : ~(solver # None /\ solver # component))

(* their positions in template["objects"] *)
SolverIndexesMutAll(objects, solver) == [k \in 1..Len(objects) |-> k]
SolverIndexes(objects, solver) ==
    SelectSeq([k \in 1..Len(objects) |-> k],
              LAMBDA k : ~(solver # None /\ solver # objects[k]))

(* the create requests of run_solver, up to and with the first that fails *)
SolverCreates(cl, objects, solver, env) ==
    LET selected == SolverIndexes(objects, solver)
        sent == IF env.create_ok THEN Len(selected)
                ELSE IF Len(selected) > 0 THEN 1 ELSE 0
    IN [k \in 1..sent |->
            CreateReq(cl.middletier_namespace, selected[k] - 1)]

(* response.metadata.name of the pod created for object k *)
PodName(k) == "solver-pod-" \o NatToStr(k)

(* dict[key] = value *)
SetItem(dict, key, value) ==
    IF HasKey(dict, key) THEN Store(dict, key, value)
    ELSE Append(dict, [key |-> key, value |-> value])

(* solvers[solver_name] = response.metadata.name for the objects created *)
RECURSIVE SolverNames(_, _, _)
SolverNames(solvers, objects, selected) ==
    IF selected = <<>> THEN solvers
    ELSE SolverNames(SetItem(solvers, objects[Head(selected)],
                             PodName(Head(selected))),
                     objects, Tail(selected))

(* which calls read self.token *)
UsesToken(result) ==
    \E k \in 1..Len(result.requests) : result.requests[k].bearer # None

ConfigurationError == Ended(<<>>, "ConfigurationError")

run_sync(cl, env) ==
    IF ~Configured(cl.frontend_namespace) THEN ConfigurationError
    ELSE IF ~env.fetch_ok
    THEN Ended(<<Req("get_cronjob", cl.frontend_namespace)>>,
               "ApiException")
    ELSE Ended(<<Req("get_cronjob", cl.frontend_namespace),
                 Req("create", cl.frontend_namespace)>>,
               IF env.create_ok THEN "returned" ELSE "ApiException")

get_pod_logMutRaiseFirst(cl, namespace, status_code) ==
    IF ~Configured(namespace) /\ ~Configured(cl.middletier_namespace)
    THEN ConfigurationError
    ELSE LET ns == IF Configured(namespace) THEN namespace
                   ELSE cl.middletier_namespace
         IN Ended(<<HttpReq(cl, "get_log", ns, <<>>)>>,
                  IF RaisesForStatus(status_code) THEN "HTTPError"
                  ELSE "returned")
get_pod_log(cl, namespace, status_code) ==
    IF ~Configured(namespace) /\ ~Configured(cl.middletier_namespace)
    THEN ConfigurationError
    ELSE LET ns == IF Configured(namespace) THEN namespace
                   ELSE cl.middletier_namespace
         IN Ended(<<HttpReq(cl, "get_log", ns, <<>>)>>,
                  IF status_code = 404 THEN "NotFoundException"
                  ELSE IF status_code = 400 THEN "returned None"
                  ELSE IF RaisesForStatus(status_code) THEN "HTTPError"
                  ELSE "returned")

(* get_build, get_buildconfig, get_build_log: one GET in the namespace *)
GetBuildObject(cl, kind, namespace, status_code) ==
    Ended(<<HttpReq(cl, kind, namespace, <<>>)>>,
          IF status_code = 404 THEN "NotFoundException"
          ELSE IF RaisesForStatus(status_code) THEN "HTTPError"
          ELSE "returned")

get_build(cl, namespace, status_code) ==
    GetBuildObject(cl, "get_build", namespace, status_code)

get_buildconfig(cl, namespace, status_code) ==
    GetBuildObject(cl, "get_buildconfig", namespace, status_code)

get_build_log(cl, namespace, status_code) ==
    GetBuildObject(cl, "get_build_log", namespace, status_code)

(* _get_pod_id_from_job: the pods with the job-name label *)
_get_pod_id_from_job(cl, namespace, env) ==
    Ended(<<Req("get_pods", IF Configured(namespace) THEN namespace
                            ELSE cl.infra_namespace)>>,
          IF ~env.fetch_ok THEN "ApiException"
          ELSE IF env.pods # 1 THEN "NotFoundException"
          ELSE "returned")

get_job_log(cl, namespace, env) ==
    Then(_get_pod_id_from_job(cl, namespace, env),
         get_pod_log(cl, namespace, env.status_code))

InspectionParameters(optional) ==
    <<Kw("AMUN_INSPECTION_ID", PyStr("inspection-1"))>> \o
    (IF optional THEN <<Kw("AMUN_CPU", PyInt(1))>> ELSE <<>>)

create_inspection_imagestream(cl, env) ==
    IF ~Configured(cl.infra_namespace) THEN ConfigurationError
    ELSE IF ~Configured(cl.amun_inspection_namespace)
    THEN ConfigurationError
    ELSE RunTemplate(cl, <<Kw("AMUN_INSPECTION_ID", PyStr("inspection-1"))>>,
                     cl.infra_namespace,
                     cl.amun_inspection_namespace, env)

create_inspection_buildconfig(cl, optional, env) ==
    IF ~Configured(cl.infra_namespace) THEN ConfigurationError
    ELSE IF ~Configured(cl.amun_inspection_namespace)
    THEN ConfigurationError
    ELSE RunTemplate(cl, InspectionParameters(optional),
                     cl.amun_inspection_namespace,
                     cl.amun_inspection_namespace, env)

(* Python values json.dumps meets besides str, int and None *)
PyBool(b) == [t |-> "bool", s |-> "", i |-> IF b THEN 1 ELSE 0]
PyDict(text) == [t |-> "dict", s |-> text, i |-> 0]

(* json.dumps of one value; a dict is carried as its JSON text *)
JsonValue(value) ==
    CASE value.t = "str" -> "\"" \o value.s \o "\""
      [] value.t = "int" -> str(value).s
      [] value.t = "None" -> "null"
      [] value.t = "bool" -> IF value.i = 1 THEN "true" ELSE "false"
      [] value.t = "dict" -> value.s

RECURSIVE JsonItems(_)
JsonItems(items) ==
    IF items = <<>> THEN ""
    ELSE "\"" \o Head(items).name \o "\": " \o JsonValue(Head(items).value)
         \o (IF Tail(items) = <<>> THEN "" ELSE ", ")
         \o JsonItems(Tail(items))

(* json.dumps(parameters) *)
JsonDumps(items) == "{" \o JsonItems(items) \o "}"

HexDigits ==
    <<"0", "1", "2", "3", "4", "5", "6", "7",
      "8", "9", "a", "b", "c", "d", "e", "f">>

RECURSIVE NatToHex(_)
NatToHex(n) ==
    IF n < 16 THEN HexDigits[n + 1]
    ELSE NatToHex(n \div 16) \o HexDigits[(n % 16) + 1]

RECURSIVE ZeroPadded(_, _)
ZeroPadded(text, width) ==
    IF Len(text) >= width THEN text ELSE ZeroPadded("0" \o text, width)

(* _generate_id: prefix + "-%016x" % random.getrandbits(64) *)
_generate_id(prefix, random) == prefix \o "-" \o ZeroPadded(NatToHex(random), 16)

(* create_config_map: one create of a ConfigMap, its name returned *)
create_config_map(configmap_name, namespace, labels, data, env) ==
    [requests |->
        <<[kind |-> "create_configmap", namespace |-> namespace,
           body |-> <<Kw("name", PyStr(configmap_name))>> \o labels \o data,
           bearer |-> None]>>,
     outcome |-> IF env.create_ok THEN "returned" ELSE "ApiException",
     value |-> IF env.create_ok THEN [NoValue EXCEPT !.id = configmap_name]
               ELSE NoValue]

(* _schedule_job: one ConfigMap for the workload operator, job_id returned *)
_schedule_jobMutName(method_name, params, job_id, namespace, env) ==
    Then(create_config_map(method_name, namespace,
                           <<Kw("app", PyStr("thoth")),
                             Kw("operator", PyStr("workload"))>>,
                           <<Kw("method", PyStr(method_name)),
                             Kw("parameters", PyStr(JsonDumps(params)))>>,
                           env),
         Gave(<<>>, [NoValue EXCEPT !.id = job_id]))
_schedule_job(method_name, params, job_id, namespace, env) ==
    Then(create_config_map(job_id, namespace,
                           <<Kw("app", PyStr("thoth")),
                             Kw("operator", PyStr("workload"))>>,
                           <<Kw("method", PyStr(method_name)),
                             Kw("parameters", PyStr(JsonDumps(params)))>>,
                           env),
         Gave(<<>>, [NoValue EXCEPT !.id = job_id]))

(* locals() without self and inspection_id *)
schedule_inspection_job(cl, inspection_id, env) ==
    IF ~Configured(cl.amun_inspection_namespace)
    THEN ConfigurationError
    ELSE _schedule_job("run_inspection_job",
                       <<Kw("parameters",
                            PyDict("{\"AMUN_CPU\": 1}")),
                         Kw("use_hw_template", PyBool(FALSE))>>,
                       inspection_id,
                       cl.amun_inspection_namespace, env)

run_inspection_job(cl, optional, env) ==
    IF ~Configured(cl.infra_namespace) THEN ConfigurationError
    ELSE IF ~Configured(cl.amun_inspection_namespace)
    THEN ConfigurationError
    ELSE RunTemplate(cl, InspectionParameters(optional),
                     cl.amun_inspection_namespace,
                     cl.amun_inspection_namespace, env)

get_solver_names(cl, env) ==
    IF ~Configured(cl.infra_namespace) THEN ConfigurationError
    ELSE FetchTemplate(cl, env)

SolverParameters(optional) ==
    <<Kw("THOTH_SOLVER_NO_TRANSITIVE", PyInt(0)),
      Kw("THOTH_SOLVER_PACKAGES", PyStr("tensorflow")),
      Kw("THOTH_SOLVER_INDEXES", PyStr("")),
      Kw("THOTH_LOG_SOLVER", PyStr("INFO")),
      Kw("THOTH_SOLVER_OUTPUT", PyStr("http://result-api")),
      Kw("THOTH_SOLVER_SUBGRAPH_CHECK_API",
         IF optional THEN PyStr("http://result-api/subgraph") ELSE PyNone)>>

(* line 638 builds a ConfigurationError for a missing middletier namespace *)
(* and drops it: only the infra namespace check raises                     *)
run_solver(cl, optional, solver, env) ==
    IF ~Configured(cl.infra_namespace) THEN ConfigurationError
    ELSE Then(FetchTemplate(cl, env),
         Then(oc_process(cl, cl.middletier_namespace,
                         set_template_parameters(env.template,
                                                 SolverParameters(optional)),
                         env),
              IF env.create_ok \/ SolverObjects(env.objects, solver) = <<>>
              THEN Gave(SolverCreates(cl, env.objects, solver, env),
                        [NoValue EXCEPT !.solvers =
                            SolverNames(<<>>, env.objects,
                                        SolverIndexes(env.objects, solver))])
              ELSE Ended(SolverCreates(cl, env.objects, solver, env),
                         "ApiException")))

PackageExtractParameters ==
    <<Kw("THOTH_LOG_PACKAGE_EXTRACT", PyStr("INFO")),
      Kw("THOTH_ANALYZED_IMAGE", PyStr("fedora:29")),
      Kw("THOTH_ANALYZER_NO_TLS_VERIFY", PyInt(0)),
      Kw("THOTH_ANALYZER_OUTPUT", PyStr("http://result-api"))>>

RegistryCredentials(optional) ==
    IF optional
    THEN <<Kw("THOTH_REGISTRY_CREDENTIALS", PyStr("user:password"))>>
    ELSE <<>>

run_package_extract(cl, optional, env) ==
    IF ~Configured(cl.middletier_namespace) THEN ConfigurationError
    ELSE IF ~Configured(cl.infra_namespace) THEN ConfigurationError
    ELSE Then(FetchTemplate(cl, env),
         Then(oc_process(cl, cl.middletier_namespace,
                set_template_parameters(
                    set_template_parameters(env.template,
                                            PackageExtractParameters),
                    RegistryCredentials(optional)),
                env),
              Create(cl.middletier_namespace, env)))

(* job_id or self._generate_id(prefix) *)
JobId(job_id, prefix, random) ==
    IF job_id # None THEN job_id ELSE _generate_id(prefix, random)

(* locals() without self, taken after job_id was settled *)
schedule_dependency_monkey(cl, job_id, random, env) ==
    IF ~Configured(cl.middletier_namespace) THEN ConfigurationError
    ELSE _schedule_job("run_dependency_monkey",
            <<Kw("requirements", PyStr("[packages]")),
              Kw("context", PyDict("{}")),
              Kw("stack_output", PyNone),
              Kw("report_output", PyNone),
              Kw("seed", PyNone),
              Kw("dry_run", PyBool(FALSE)),
              Kw("decision", PyNone),
              Kw("count", PyNone),
              Kw("debug", PyBool(FALSE)),
              Kw("job_id",
                 PyStr(JobId(job_id, "dependency-monkey", random)))>>,
            JobId(job_id, "dependency-monkey", random),
            cl.middletier_namespace, env)

DependencyMonkeyParameters(optional) ==
    <<Kw("THOTH_ADVISER_REQUIREMENTS", PyStr("[packages]")),
      Kw("THOTH_AMUN_CONTEXT", PyStr("{}")),
      Kw("THOTH_DEPENDENCY_MONKEY_STACK_OUTPUT", PyStr("-")),
      Kw("THOTH_DEPENDENCY_MONKEY_REPORT_OUTPUT", PyStr("-")),
      Kw("THOTH_DEPENDENCY_MONKEY_DRY_RUN", PyInt(0)),
      Kw("THOTH_LOG_ADVISER", PyStr("INFO")),
      Kw("THOTH_DEPENDENCY_MONKEY_JOB_ID", PyStr("dependency-monkey-1"))>> \o
    (IF optional
     THEN <<Kw("THOTH_DEPENDENCY_MONKEY_DECISION", PyStr("random")),
            Kw("THOTH_DEPENCENCY_MONKEY_SEED", PyInt(10)),
            Kw("THOTH_DEPENDENCY_MONKEY_COUNT", PyInt(1))>>
     ELSE <<>>)

run_dependency_monkey(cl, optional, env) ==
    IF ~Configured(cl.middletier_namespace) THEN ConfigurationError
    ELSE IF ~Configured(cl.infra_namespace) THEN ConfigurationError
    ELSE RunTemplate(cl, DependencyMonkeyParameters(optional),
                     cl.middletier_namespace,
                     cl.middletier_namespace, env)

schedule_adviser(cl, job_id, random, env) ==
    IF ~Configured(cl.backend_namespace) THEN ConfigurationError
    ELSE _schedule_job("run_adviser",
            <<Kw("application_stack",
                 PyDict("{\"requirements\": \"[packages]\"}")),
              Kw("output", PyStr("http://result-api")),
              Kw("recommendation_type", PyStr("stable")),
              Kw("count", PyNone),
              Kw("limit", PyNone),
              Kw("runtime_environment", PyNone),
              Kw("debug", PyBool(FALSE)),
              Kw("job_id", PyStr(JobId(job_id, "adviser", random)))>>,
            JobId(job_id, "adviser", random),
            cl.backend_namespace, env)

AdviserParameters(optional) ==
    <<Kw("THOTH_ADVISER_REQUIREMENTS", PyStr("[packages]")),
      Kw("THOTH_ADVISER_REQUIREMENTS_LOCKED", PyStr("")),
      Kw("THOTH_ADVISER_REQUIREMENTS_FORMAT", PyStr("pipenv")),
      Kw("THOTH_ADVISER_RECOMMENDATION_TYPE", PyStr("stable")),
      Kw("THOTH_ADVISER_RUNTIME_ENVIRONMENT",
         IF optional THEN PyStr("{}") ELSE PyNone),
      Kw("THOTH_ADVISER_OUTPUT", PyStr("http://result-api")),
      Kw("THOTH_LOG_ADVISER", PyStr("INFO")),
      Kw("THOTH_ADVISER_JOB_ID", PyStr("adviser-1"))>> \o
    (IF optional
     THEN <<Kw("THOTH_ADVISER_COUNT", PyInt(1)),
            Kw("THOTH_ADVISER_LIMIT", PyInt(10))>>
     ELSE <<>>)

run_adviser(cl, optional, env) ==
    IF ~Configured(cl.backend_namespace) THEN ConfigurationError
    ELSE IF ~Configured(cl.infra_namespace) THEN ConfigurationError
    ELSE RunTemplate(cl, AdviserParameters(optional),
                     cl.backend_namespace,
                     cl.backend_namespace, env)

schedule_provenance_checker(cl, job_id, random, env) ==
    IF ~Configured(cl.backend_namespace) THEN ConfigurationError
    ELSE _schedule_job("run_provenance_checker",
            <<Kw("application_stack",
                 PyDict("{\"requirements\": \"[packages]\"}")),
              Kw("output", PyStr("http://result-api")),
              Kw("whitelisted_sources", PyNone),
              Kw("debug", PyBool(FALSE)),
              Kw("job_id",
                 PyStr(JobId(job_id, "provenance-checker", random)))>>,
            JobId(job_id, "provenance-checker", random),
            cl.backend_namespace, env)

ProvenanceCheckerParameters ==
    <<Kw("THOTH_ADVISER_REQUIREMENTS", PyStr("[packages]")),
      Kw("THOTH_ADVISER_REQUIREMENTS_LOCKED", PyStr("{}")),
      Kw("THOTH_ADVISER_OUTPUT", PyStr("http://result-api")),
      Kw("THOTH_WHITELISTED_SOURCES", PyStr("")),
      Kw("THOTH_LOG_ADVISER", PyStr("INFO")),
      Kw("THOTH_PROVENANCE_CHECKER_JOB_ID", PyStr("provenance-checker-1"))>>

run_provenance_checker(cl, env) ==
    IF ~Configured(cl.backend_namespace) THEN ConfigurationError
    ELSE IF ~Configured(cl.infra_namespace) THEN ConfigurationError
    ELSE RunTemplate(cl, ProvenanceCheckerParameters,
                     cl.backend_namespace,
                     cl.backend_namespace, env)

----------------------------------------------------------------------------
(* SpecOps: calls on one client object, one after the other                *)

MaxTemplates == 2   \* templates a label selector matches
MaxObjects == 2     \* objects of the processed solver template
MaxPods == 2        \* pods carrying the job-name label

Solvers == {"solver-f27", "solver-rhel8"}

(* the job_id argument: omitted, or given *)
JobIds == {None, "job-1", "job-2"}

(* values of random.getrandbits(64) *)
RandomBits == {0, 10, 255}

(* the namespace argument: omitted, or given *)
Namespaces == {None, "thoth-test"}

StatusCodes == {200, 304, 400, 404, 500}

(* the template the label selector returns, as stored in the cluster *)
FetchedTemplates ==
    {[has_parameters |-> FALSE, parameters |-> <<>>],
     [has_parameters |-> TRUE,
      parameters |-> <<Kw("THOTH_LOG_ADVISER", PyStr("DEBUG")),
                       Kw("THOTH_RESULT_API_HOSTNAME", PyStr("result-api"))>>]}

(* the master answers every request of the call well *)
AllWell ==
    [fetch_ok |-> TRUE, templates |-> 1, process_ok |-> TRUE,
     create_ok |-> TRUE, template |-> [has_parameters |-> FALSE,
                                       parameters |-> <<>>],
     objects |-> <<"solver-f27">>, pods |-> 1, status_code |-> 200]

(* what the master answers during one call; an answer the call never asks  *)
(* for is left as in AllWell                                               *)
FetchEnvs ==
    {[AllWell EXCEPT !.fetch_ok = FALSE]} \cup
    {[AllWell EXCEPT !.templates = n] : n \in 0..MaxTemplates}

CreateEnvs == {AllWell, [AllWell EXCEPT !.create_ok = FALSE]}

SyncEnvs == CreateEnvs \cup {[AllWell EXCEPT !.fetch_ok = FALSE]}

TemplateEnvs ==
    FetchEnvs \cup
    {env \in {[AllWell EXCEPT !.template = t, !.process_ok = p,
                              !.create_ok = c] :
                t \in FetchedTemplates, p \in BOOLEAN, c \in BOOLEAN} :
        env.process_ok \/ env.create_ok}

SolverEnvs ==
    UNION {{[env EXCEPT !.objects = o] :
                o \in IF env.fetch_ok /\ env.templates = 1 /\ env.process_ok
                      THEN SeqsUpTo(Solvers, MaxObjects)
                      ELSE {AllWell.objects}} :
            env \in TemplateEnvs}

JobLogEnvs ==
    {[AllWell EXCEPT !.fetch_ok = FALSE]} \cup
    {[AllWell EXCEPT !.pods = n] : n \in 0..MaxPods} \cup
    {[AllWell EXCEPT !.status_code = s] : s \in StatusCodes}

(* __init__: every namespace from its argument or the environment, the     *)
(* Amun inspection namespace from the frontend argument first              *)
Clients ==
    {[frontend_namespace |-> f,
      middletier_namespace |-> m,
      backend_namespace |-> b,
      infra_namespace |-> i,
      amun_inspection_namespace |-> IF f # None THEN f ELSE a,
      in_cluster |-> c,
      _token |-> t] :
        f \in {None, "thoth-frontend"}, m \in {None, "thoth-middletier"},
        b \in {None, "thoth-backend"}, i \in {None, "thoth-infra"},
        a \in {None, "thoth-amun"}, c \in BOOLEAN,
        t \in {None, "supplied-token"}}

InitOps ==
    /\ client \in Clients
    /\ token_reads = 0
    /\ op = "none"
    /\ args = [namespace |-> None, solver |-> None, optional |-> FALSE,
               job_id |-> None]
    /\ answers = AllWell
    /\ requests = <<>>
    /\ outcome = "none"
    /\ returned = NoValue
    /\ IdleParams /\ IdleEnv /\ IdleStatus

(* the token source is read when a request needs the token and none is     *)
(* cached                                                                  *)
TokenReads(cl, result) ==
    IF UsesToken(result) /\ cl._token = None THEN 1 ELSE 0

(* a call: what it sent, how it ended, the token it left cached *)
RunSync ==
    /\ op = "none"
    /\ \E env \in SyncEnvs :
        LET result == run_sync(client, env) IN
        /\ op' = "run_sync"
        /\ args' = [namespace |-> None, solver |-> None,
                    optional |-> FALSE, job_id |-> None]
        /\ answers' = env
        /\ requests' = result.requests
        /\ outcome' = result.outcome
        /\ returned' = result.value
        /\ client' = IF UsesToken(result) THEN token(client) ELSE client
        /\ token_reads' = token_reads + TokenReads(client, result)
        /\ UNCHANGED <<paramVars, envVars, statusVars>>

GetPodLog ==
    /\ op = "none"
    /\ \E namespace \in Namespaces, status_code \in StatusCodes :
        LET result == get_pod_log(client, namespace, status_code) IN
        /\ op' = "get_pod_log"
        /\ args' = [namespace |-> namespace, solver |-> None,
                    optional |-> FALSE, job_id |-> None]
        /\ answers' = [AllWell EXCEPT !.status_code = status_code]
        /\ requests' = result.requests
        /\ outcome' = result.outcome
        /\ returned' = result.value
        /\ client' = IF UsesToken(result) THEN token(client) ELSE client
        /\ token_reads' = token_reads + TokenReads(client, result)
        /\ UNCHANGED <<paramVars, envVars, statusVars>>

GetBuild ==
    /\ op = "none"
    /\ \E status_code \in StatusCodes :
        LET result == get_build(client, "thoth-test", status_code) IN
        /\ op' = "get_build"
        /\ args' = [namespace |-> "thoth-test", solver |-> None,
                    optional |-> FALSE, job_id |-> None]
        /\ answers' = [AllWell EXCEPT !.status_code = status_code]
        /\ requests' = result.requests
        /\ outcome' = result.outcome
        /\ returned' = result.value
        /\ client' = IF UsesToken(result) THEN token(client) ELSE client
        /\ token_reads' = token_reads + TokenReads(client, result)
        /\ UNCHANGED <<paramVars, envVars, statusVars>>

GetBuildconfig ==
    /\ op = "none"
    /\ \E status_code \in StatusCodes :
        LET result == get_buildconfig(client, "thoth-test", status_code) IN
        /\ op' = "get_buildconfig"
        /\ args' = [namespace |-> "thoth-test", solver |-> None,
                    optional |-> FALSE, job_id |-> None]
        /\ answers' = [AllWell EXCEPT !.status_code = status_code]
        /\ requests' = result.requests
        /\ outcome' = result.outcome
        /\ returned' = result.value
        /\ client' = IF UsesToken(result) THEN token(client) ELSE client
        /\ token_reads' = token_reads + TokenReads(client, result)
        /\ UNCHANGED <<paramVars, envVars, statusVars>>

GetBuildLog ==
    /\ op = "none"
    /\ \E status_code \in StatusCodes :
        LET result == get_build_log(client, "thoth-test", status_code) IN
        /\ op' = "get_build_log"
        /\ args' = [namespace |-> "thoth-test", solver |-> None,
                    optional |-> FALSE, job_id |-> None]
        /\ answers' = [AllWell EXCEPT !.status_code = status_code]
        /\ requests' = result.requests
        /\ outcome' = result.outcome
        /\ returned' = result.value
        /\ client' = IF UsesToken(result) THEN token(client) ELSE client
        /\ token_reads' = token_reads + TokenReads(client, result)
        /\ UNCHANGED <<paramVars, envVars, statusVars>>

GetJobLog ==
    /\ op = "none"
    /\ \E namespace \in Namespaces, env \in JobLogEnvs :
        LET result == get_job_log(client, namespace, env) IN
        /\ op' = "get_job_log"
        /\ args' = [namespace |-> namespace, solver |-> None,
                    optional |-> FALSE, job_id |-> None]
        /\ answers' = env
        /\ requests' = result.requests
        /\ outcome' = result.outcome
        /\ returned' = result.value
        /\ client' = IF UsesToken(result) THEN token(client) ELSE client
        /\ token_reads' = token_reads + TokenReads(client, result)
        /\ UNCHANGED <<paramVars, envVars, statusVars>>

CreateInspectionImagestream ==
    /\ op = "none"
    /\ \E env \in TemplateEnvs :
        LET result == create_inspection_imagestream(client, env) IN
        /\ op' = "create_inspection_imagestream"
        /\ args' = [namespace |-> None, solver |-> None,
                    optional |-> FALSE, job_id |-> None]
        /\ answers' = env
        /\ requests' = result.requests
        /\ outcome' = result.outcome
        /\ returned' = result.value
        /\ client' = IF UsesToken(result) THEN token(client) ELSE client
        /\ token_reads' = token_reads + TokenReads(client, result)
        /\ UNCHANGED <<paramVars, envVars, statusVars>>

CreateInspectionBuildconfig ==
    /\ op = "none"
    /\ \E optional \in BOOLEAN, env \in TemplateEnvs :
        LET result == create_inspection_buildconfig(client, optional, env) IN
        /\ op' = "create_inspection_buildconfig"
        /\ args' = [namespace |-> None, solver |-> None,
                    optional |-> optional, job_id |-> None]
        /\ answers' = env
        /\ requests' = result.requests
        /\ outcome' = result.outcome
        /\ returned' = result.value
        /\ client' = IF UsesToken(result) THEN token(client) ELSE client
        /\ token_reads' = token_reads + TokenReads(client, result)
        /\ UNCHANGED <<paramVars, envVars, statusVars>>

ScheduleInspectionJob ==
    /\ op = "none"
    /\ \E inspection_id \in JobIds \ {None}, env \in CreateEnvs :
        LET result == schedule_inspection_job(client, inspection_id, env) IN
        /\ op' = "schedule_inspection_job"
        /\ args' = [namespace |-> None, solver |-> None,
                    optional |-> FALSE, job_id |-> inspection_id]
        /\ answers' = env
        /\ requests' = result.requests
        /\ outcome' = result.outcome
        /\ returned' = result.value
        /\ client' = IF UsesToken(result) THEN token(client) ELSE client
        /\ token_reads' = token_reads + TokenReads(client, result)
        /\ UNCHANGED <<paramVars, envVars, statusVars>>

RunInspectionJob ==
    /\ op = "none"
    /\ \E optional \in BOOLEAN, env \in TemplateEnvs :
        LET result == run_inspection_job(client, optional, env) IN
        /\ op' = "run_inspection_job"
        /\ args' = [namespace |-> None, solver |-> None,
                    optional |-> optional, job_id |-> None]
        /\ answers' = env
        /\ requests' = result.requests
        /\ outcome' = result.outcome
        /\ returned' = result.value
        /\ client' = IF UsesToken(result) THEN token(client) ELSE client
        /\ token_reads' = token_reads + TokenReads(client, result)
        /\ UNCHANGED <<paramVars, envVars, statusVars>>

GetSolverNames ==
    /\ op = "none"
    /\ \E env \in FetchEnvs :
        LET result == get_solver_names(client, env) IN
        /\ op' = "get_solver_names"
        /\ args' = [namespace |-> None, solver |-> None,
                    optional |-> FALSE, job_id |-> None]
        /\ answers' = env
        /\ requests' = result.requests
        /\ outcome' = result.outcome
        /\ returned' = result.value
        /\ client' = IF UsesToken(result) THEN token(client) ELSE client
        /\ token_reads' = token_reads + TokenReads(client, result)
        /\ UNCHANGED <<paramVars, envVars, statusVars>>

RunSolver ==
    /\ op = "none"
    /\ \E optional \in BOOLEAN, solver \in Solvers \cup {None}, env \in SolverEnvs :
        LET result == run_solver(client, optional, solver, env) IN
        /\ op' = "run_solver"
        /\ args' = [namespace |-> None, solver |-> solver,
                    optional |-> optional, job_id |-> None]
        /\ answers' = env
        /\ requests' = result.requests
        /\ outcome' = result.outcome
        /\ returned' = result.value
        /\ client' = IF UsesToken(result) THEN token(client) ELSE client
        /\ token_reads' = token_reads + TokenReads(client, result)
        /\ UNCHANGED <<paramVars, envVars, statusVars>>

RunPackageExtract ==
    /\ op = "none"
    /\ \E optional \in BOOLEAN, env \in TemplateEnvs :
        LET result == run_package_extract(client, optional, env) IN
        /\ op' = "run_package_extract"
        /\ args' = [namespace |-> None, solver |-> None,
                    optional |-> optional, job_id |-> None]
        /\ answers' = env
        /\ requests' = result.requests
        /\ outcome' = result.outcome
        /\ returned' = result.value
        /\ client' = IF UsesToken(result) THEN token(client) ELSE client
        /\ token_reads' = token_reads + TokenReads(client, result)
        /\ UNCHANGED <<paramVars, envVars, statusVars>>

ScheduleDependencyMonkey ==
    /\ op = "none"
    /\ \E job_id \in JobIds, random \in RandomBits, env \in CreateEnvs :
        LET result == schedule_dependency_monkey(client, job_id, random, env) IN
        /\ op' = "schedule_dependency_monkey"
        /\ args' = [namespace |-> None, solver |-> None,
                    optional |-> FALSE, job_id |-> job_id]
        /\ answers' = env
        /\ requests' = result.requests
        /\ outcome' = result.outcome
        /\ returned' = result.value
        /\ client' = IF UsesToken(result) THEN token(client) ELSE client
        /\ token_reads' = token_reads + TokenReads(client, result)
        /\ UNCHANGED <<paramVars, envVars, statusVars>>

RunDependencyMonkey ==
    /\ op = "none"
    /\ \E optional \in BOOLEAN, env \in TemplateEnvs :
        LET result == run_dependency_monkey(client, optional, env) IN
        /\ op' = "run_dependency_monkey"
        /\ args' = [namespace |-> None, solver |-> None,
                    optional |-> optional, job_id |-> None]
        /\ answers' = env
        /\ requests' = result.requests
        /\ outcome' = result.outcome
        /\ returned' = result.value
        /\ client' = IF UsesToken(result) THEN token(client) ELSE client
        /\ token_reads' = token_reads + TokenReads(client, result)
        /\ UNCHANGED <<paramVars, envVars, statusVars>>

ScheduleAdviser ==
    /\ op = "none"
    /\ \E job_id \in JobIds, random \in RandomBits, env \in CreateEnvs :
        LET result == schedule_adviser(client, job_id, random, env) IN
        /\ op' = "schedule_adviser"
        /\ args' = [namespace |-> None, solver |-> None,
                    optional |-> FALSE, job_id |-> job_id]
        /\ answers' = env
        /\ requests' = result.requests
        /\ outcome' = result.outcome
        /\ returned' = result.value
        /\ client' = IF UsesToken(result) THEN token(client) ELSE client
        /\ token_reads' = token_reads + TokenReads(client, result)
        /\ UNCHANGED <<paramVars, envVars, statusVars>>

RunAdviser ==
    /\ op = "none"
    /\ \E optional \in BOOLEAN, env \in TemplateEnvs :
        LET result == run_adviser(client, optional, env) IN
        /\ op' = "run_adviser"
        /\ args' = [namespace |-> None, solver |-> None,
                    optional |-> optional, job_id |-> None]
        /\ answers' = env
        /\ requests' = result.requests
        /\ outcome' = result.outcome
        /\ returned' = result.value
        /\ client' = IF UsesToken(result) THEN token(client) ELSE client
        /\ token_reads' = token_reads + TokenReads(client, result)
        /\ UNCHANGED <<paramVars, envVars, statusVars>>

ScheduleProvenanceChecker ==
    /\ op = "none"
    /\ \E job_id \in JobIds, random \in RandomBits, env \in CreateEnvs :
        LET result == schedule_provenance_checker(client, job_id, random, env) IN
        /\ op' = "schedule_provenance_checker"
        /\ args' = [namespace |-> None, solver |-> None,
                    optional |-> FALSE, job_id |-> job_id]
        /\ answers' = env
        /\ requests' = result.requests
        /\ outcome' = result.outcome
        /\ returned' = result.value
        /\ client' = IF UsesToken(result) THEN token(client) ELSE client
        /\ token_reads' = token_reads + TokenReads(client, result)
        /\ UNCHANGED <<paramVars, envVars, statusVars>>

RunProvenanceChecker ==
    /\ op = "none"
    /\ \E env \in TemplateEnvs :
        LET result == run_provenance_checker(client, env) IN
        /\ op' = "run_provenance_checker"
        /\ args' = [namespace |-> None, solver |-> None,
                    optional |-> FALSE, job_id |-> None]
        /\ answers' = env
        /\ requests' = result.requests
        /\ outcome' = result.outcome
        /\ returned' = result.value
        /\ client' = IF UsesToken(result) THEN token(client) ELSE client
        /\ token_reads' = token_reads + TokenReads(client, result)
        /\ UNCHANGED <<paramVars, envVars, statusVars>>

(* the call is over: the caller holds its result, the object keeps only    *)
(* its attributes                                                          *)
Return ==
    /\ op # "none"
    /\ op' = "none"
    /\ args' = [namespace |-> None, solver |-> None, optional |-> FALSE,
                job_id |-> None]
    /\ answers' = AllWell
    /\ requests' = <<>>
    /\ outcome' = "none"
    /\ returned' = NoValue
    /\ UNCHANGED <<client, token_reads, paramVars, envVars, statusVars>>

NextOps ==
    \/ RunSync
    \/ GetPodLog
    \/ GetBuild
    \/ GetBuildconfig
    \/ GetBuildLog
    \/ GetJobLog
    \/ CreateInspectionImagestream
    \/ CreateInspectionBuildconfig
    \/ ScheduleInspectionJob
    \/ RunInspectionJob
    \/ GetSolverNames
    \/ RunSolver
    \/ RunPackageExtract
    \/ ScheduleDependencyMonkey
    \/ RunDependencyMonkey
    \/ ScheduleAdviser
    \/ RunAdviser
    \/ ScheduleProvenanceChecker
    \/ RunProvenanceChecker
    \/ Return

SpecOps == InitOps /\ [][NextOps]_vars

----------------------------------------------------------------------------
(* Properties of set_template_parameters                                   *)

NamesOf(entries) == [k \in 1..Len(entries) |-> entries[k].name]

HasName(entries, name) == \E k \in 1..Len(entries) : entries[k].name = name

(* the value the mapping gives to name *)
ValueIn(params, name) ==
    params[CHOOSE k \in 1..Len(params) : params[k].name = name].value

(* the names of the mapping no entry of the list carries, in mapping order *)
Unmatched(entries, params) ==
    SelectSeq(NamesOf(params), LAMBDA n : ~HasName(entries, n))

(* what the upsert contract stores for a value *)
Coerced(value) ==
    CASE value.t = "None" -> PyStr("")
      [] value.t = "str" -> value
      [] value.t = "int" -> str(value)

(* C1: set_template_parameters is idempotent: a call that repeats the      *)
(* mapping of the call before it leaves the parameter list as that call    *)
(* left it.                                                                *)
C1_Idempotent ==
    repeated => template.parameters = before

C1_Witness ==
    /\ repeated
    /\ Len(parameters) = 2
    /\ \E k \in 1..Len(parameters) : parameters[k].value = PyNone
    /\ \E k \in 1..Len(parameters) : parameters[k].value.t = "int"
    /\ \E a, b \in 1..Len(before) : a # b /\ before[a].name = before[b].name

(* C7: after a call the entry names are the names the list had before, in  *)
(* the same order, followed by the mapping's names that matched no entry,  *)
(* in mapping order; the list grows by the number of unmatched names.      *)
C7_NamesPreservedThenAppended ==
    calls > 0 =>
        /\ NamesOf(template.parameters) =
                NamesOf(before) \o Unmatched(before, parameters)
        /\ Len(template.parameters) =
                Len(before) + Len(Unmatched(before, parameters))

C7_Witness ==
    /\ calls > 0
    /\ Len(before) = 2
    /\ before[1].name # before[2].name
    /\ Len(parameters) = 2
    /\ Len(template.parameters) = 2
    /\ parameters[1].name = before[2].name

C7_WitnessAppend ==
    /\ calls > 0
    /\ Len(before) = 1
    /\ Len(parameters) = 2
    /\ Len(template.parameters) = 2
    /\ parameters[2].name = before[1].name

(* C8: a call overwrites, for each name of the mapping, the value of the   *)
(* first entry of that name only, with str(value) or "" for None; every    *)
(* other entry keeps its value; an unmatched name is appended with the     *)
(* same coercion.                                                          *)
C8_FirstMatchOverwritten ==
    calls > 0 =>
        /\ Len(template.parameters) >= Len(before)
        /\ \A k \in 1..Len(before) :
              template.parameters[k].value =
                IF /\ HasName(parameters, before[k].name)
                   /\ \A j \in 1..(k - 1) : before[j].name # before[k].name
                THEN Coerced(ValueIn(parameters, before[k].name))
                ELSE before[k].value
        /\ \A k \in (Len(before) + 1)..Len(template.parameters) :
              /\ HasName(parameters, template.parameters[k].name)
              /\ template.parameters[k].value =
                    Coerced(ValueIn(parameters, template.parameters[k].name))

C8_Witness ==
    /\ calls > 0
    /\ Len(before) = 2
    /\ before[1].name = before[2].name
    /\ HasName(parameters, before[1].name)
    /\ ValueIn(parameters, before[1].name) = PyNone
    /\ template.parameters[1].value = PyStr("")
    /\ template.parameters[2].value = before[2].value
    /\ Len(template.parameters) = 3
    /\ template.parameters[3].value = PyStr("10")

(* C6: _set_env_var is idempotent like the parameter upsert: a call that   *)
(* repeats the mapping of the call before it leaves the env list as that   *)
(* call left it, a matching entry being overwritten with the value coerced *)
(* to string as an appended entry is.                                      *)
C6_EnvIdempotent ==
    env_repeated => pod_template = env_before

----------------------------------------------------------------------------
(* Properties of get_pod_status and _status_report                         *)

(* the dictionary has the single key `key` *)
SoleKey(dict, key) == Len(dict) = 1 /\ dict[1].key = key

(* {"terminated": {"exitCode": 137, "reason": "Error", ...}} *)
IsTimeoutKill(dict) ==
    /\ SoleKey(dict, "terminated")
    /\ HasKey(dict[1].value, "exitCode")
    /\ Lookup(dict[1].value, "exitCode") = PyInt(137)
    /\ HasKey(dict[1].value, "reason")
    /\ Lookup(dict[1].value, "reason") = PyStr("Error")

Returned == reported_status.raised = "none"

(* C2 as stated: _status_report, handed the timeout kill as the master     *)
(* delivers it, reports the reason TimeoutKilled (here for the records     *)
(* without 'signal' and 'message', which the function translates without   *)
(* interference).                                                          *)
C2_StatusReportRecodes ==
    (/\ pc = "direct"
     /\ IsTimeoutKill(status)
     /\ ~HasKey(status[1].value, "signal")
     /\ ~HasKey(status[1].value, "message"))
        => /\ Returned
           /\ reported_status.reason = PyStr("TimeoutKilled")

(* C2 amended: get_pod_status does the recoding, _status_report does not:  *)
(* for the state {"terminated": {"exitCode": 137, "reason": "Error", ...}} *)
(* get_pod_status returns the state with terminated.reason replaced by     *)
(* TimeoutKilled and everything else as delivered; _status_report handed   *)
(* the delivered state directly reports a delivered 'reason' or 'message'  *)
(* value.                                                                  *)
C2_GetPodStatusRecodes ==
    /\ (pc = "report" /\ response.kind = "pod"
            /\ response.has_container_statuses
            /\ IsTimeoutKill(response.state))
        => /\ Lookup(status[1].value, "reason") = PyStr("TimeoutKilled")
           /\ status =
                Store(response.state, "terminated",
                      Store(response.state[1].value, "reason",
                            PyStr("TimeoutKilled")))
    /\ (pc = "direct" /\ IsTimeoutKill(status) /\ Returned)
        => \/ reported_status.reason = PyStr("Error")
           \/ /\ HasKey(status[1].value, "message")
              /\ reported_status.reason = Lookup(status[1].value, "message")

C2_Witness ==
    /\ pc = "report"
    /\ IsTimeoutKill(response.state)
    /\ Returned
    /\ reported_status.reason = PyStr("TimeoutKilled")
    /\ reported_status.exit_code = PyInt(137)

C2_WitnessDirect ==
    /\ pc = "direct"
    /\ IsTimeoutKill(status)
    /\ Returned
    /\ reported_status.reason = PyStr("Error")

(* C3: when the state record carries both 'reason' and 'message', in       *)
(* either key order, the reported reason is the raw 'reason' value: the    *)
(* message is copied only when no reason was set.                          *)
C3_ReasonNotOverwritten ==
    (/\ pc = "direct"
     /\ Len(status) = 1
     /\ HasKey(status[1].value, "reason")
     /\ HasKey(status[1].value, "message")
     /\ Returned)
        => reported_status.reason = Lookup(status[1].value, "reason")

(* C5: _status_report returns a report and never raises, for the empty     *)
(* dictionary, for several keys and for a single lifecycle key with any    *)
(* subset of the fields the master has for a container state.              *)
C5_NeverRaises ==
    pc = "direct" => Returned

DeliveredTimeoutKilled ==
    \E k \in 1..Len(response.state) :
        \E j \in 1..Len(response.state[k].value) :
            /\ response.state[k].value[j].key \in {"reason", "message"}
            /\ response.state[k].value[j].value = PyStr("TimeoutKilled")

States == {"scheduling", "waiting", "running", "terminated"}

(* C10: every report _status_report returns, also for the empty dictionary *)
(* and for several keys, has a state out of scheduling, waiting, running,  *)
(* terminated.                                                             *)
C10_StateInStates ==
    (pc \in {"direct", "report"} /\ Returned)
        => reported_status.state \in States

C10_Witness ==
    /\ pc = "direct"
    /\ Len(status) = 2
    /\ Returned
    /\ reported_status.state = "scheduling"

C10_WitnessSingle ==
    /\ pc = "direct"
    /\ SoleKey(status, "running")
    /\ Returned
    /\ reported_status.state = "running"

(* the report with nothing but the state *)
OnlyState(state) ==
    /\ reported_status.state = state
    /\ reported_status.exit_code = PyNone
    /\ reported_status.reason = PyNone
    /\ reported_status.started_at = PyNone
    /\ reported_status.finished_at = PyNone
    /\ reported_status.container = PyNone

(* C11: for the empty dictionary and for a dictionary of several keys,     *)
(* whatever is nested in it, _status_report returns state scheduling and   *)
(* None for every other field; so does the report of a pod that has no     *)
(* containerStatuses yet.                                                  *)
C11_SchedulingWhenNotSingleKey ==
    /\ (pc = "direct" /\ Len(status) # 1)
            => Returned /\ OnlyState("scheduling")
    /\ (pc = "report" /\ response.kind = "pod"
            /\ (~response.has_container_statuses \/ Len(response.state) # 1))
            => Returned /\ OnlyState("scheduling")

C11_Witness ==
    /\ pc = "direct"
    /\ Len(status) = 2
    /\ status[1].value # <<>>
    /\ Returned
    /\ OnlyState("scheduling")

C11_WitnessNoStatuses ==
    /\ pc = "report"
    /\ response.kind = "pod"
    /\ ~response.has_container_statuses
    /\ Returned
    /\ OnlyState("scheduling")

(* C12: a reason other than the timeout case passes through unchanged: for *)
(* a terminated state with exit code 137 and a raw reason other than       *)
(* "Error", and for any state with raw reason "Error" and an exit code     *)
(* other than 137, the reported reason is the raw reason.                  *)
C12_OtherReasonsUnchanged ==
    (/\ pc = "report"
     /\ Returned
     /\ response.kind = "pod"
     /\ response.has_container_statuses
     /\ Len(response.state) = 1
     /\ HasKey(response.state[1].value, "reason")
     /\ HasKey(response.state[1].value, "exitCode")
     /\ \/ /\ SoleKey(response.state, "terminated")
           /\ Lookup(response.state[1].value, "exitCode") = PyInt(137)
           /\ Lookup(response.state[1].value, "reason") # PyStr("Error")
        \/ /\ Lookup(response.state[1].value, "exitCode") # PyInt(137)
           /\ Lookup(response.state[1].value, "reason") = PyStr("Error"))
        => reported_status.reason = Lookup(response.state[1].value, "reason")

(* the string s begins with the string p *)
StartsWith(s, p) ==
    \E k \in 0..Len(s) : k = Len(p) /\ SubSeq(s, 1, k) = p

(* what the report has to show for the field `field` of the record rec:    *)
(* its value (the containerID less a leading docker://, the message where  *)
(* there is no reason), None when the field is not there                   *)
Expected(rec, field) ==
    IF field = "containerID" /\ HasKey(rec, "containerID")
    THEN IF StartsWith(Lookup(rec, "containerID").s, DockerPrefix)
         THEN PyStr(SubSeq(Lookup(rec, "containerID").s, Len(DockerPrefix) + 1,
                           Len(Lookup(rec, "containerID").s)))
         ELSE Lookup(rec, "containerID")
    ELSE IF HasKey(rec, field) THEN Lookup(rec, field)
    ELSE IF field = "reason" /\ HasKey(rec, "message")
    THEN Lookup(rec, "message")
    ELSE PyNone

(* C13: for a single-key input the report has exactly the fields state,    *)
(* exit_code, reason, started_at, finished_at, container; state is the     *)
(* sole key; every nested field of the input appears under its renamed key *)
(* with its value and every field not in the input is None.                *)
C13_FixedShapeRenamedFields ==
    (pc = "direct" /\ Len(status) = 1)
        => /\ Returned
           /\ DOMAIN reported_status =
                {"raised", "state", "exit_code", "reason", "started_at",
                 "finished_at", "container"}
           /\ reported_status.state = status[1].key
           /\ reported_status.exit_code = Expected(status[1].value, "exitCode")
           /\ reported_status.reason = Expected(status[1].value, "reason")
           /\ reported_status.started_at =
                Expected(status[1].value, "startedAt")
           /\ reported_status.finished_at =
                Expected(status[1].value, "finishedAt")
           /\ reported_status.container =
                Expected(status[1].value, "containerID")

(* C14: _status_report strips exactly one leading docker:// from the       *)
(* containerID and reports the rest as container; a containerID that does  *)
(* not begin with it, also one that has it further in, is reported as it   *)
(* is.                                                                     *)
C14_OneLeadingPrefixStripped ==
    (/\ pc = "direct"
     /\ Len(status) = 1
     /\ HasKey(status[1].value, "containerID")
     /\ Returned)
        => LET id == Lookup(status[1].value, "containerID") IN
           IF StartsWith(id.s, DockerPrefix)
           THEN /\ reported_status.container.t = "str"
                /\ DockerPrefix \o reported_status.container.s = id.s
           ELSE reported_status.container = id

C14_Witness ==
    /\ pc = "direct"
    /\ Len(status) = 1
    /\ HasKey(status[1].value, "containerID")
    /\ Lookup(status[1].value, "containerID") =
            PyStr("docker://docker://abc123")
    /\ Returned
    /\ reported_status.container = PyStr("docker://abc123")

C14_WitnessInside ==
    /\ pc = "direct"
    /\ Len(status) = 1
    /\ HasKey(status[1].value, "containerID")
    /\ Returned
    /\ reported_status.container = PyStr("cri-o://docker://abc123")

----------------------------------------------------------------------------
(* Properties of the client operations                                     *)

(* the namespaces of the client an operation sends its requests to *)
NamespacesUsed ==
    [run_sync |-> {"frontend_namespace"},
     get_pod_log |-> {"middletier_namespace"},
     create_inspection_imagestream |->
        {"infra_namespace", "amun_inspection_namespace"},
     create_inspection_buildconfig |->
        {"infra_namespace", "amun_inspection_namespace"},
     schedule_inspection_job |-> {"amun_inspection_namespace"},
     run_inspection_job |-> {"infra_namespace", "amun_inspection_namespace"},
     get_solver_names |-> {"infra_namespace"},
     run_solver |-> {"infra_namespace", "middletier_namespace"},
     run_package_extract |-> {"infra_namespace", "middletier_namespace"},
     schedule_dependency_monkey |-> {"middletier_namespace"},
     run_dependency_monkey |-> {"infra_namespace", "middletier_namespace"},
     schedule_adviser |-> {"backend_namespace"},
     run_adviser |-> {"infra_namespace", "backend_namespace"},
     schedule_provenance_checker |-> {"backend_namespace"},
     run_provenance_checker |-> {"infra_namespace", "backend_namespace"}]

(* C4: an operation that needs a namespace which is not configured ends    *)
(* with ConfigurationError before it has sent any request; no request is   *)
(* ever addressed to a namespace that is not configured.                   *)
C4_ConfigurationErrorBeforeRequests ==
    /\ outcome = "ConfigurationError" => requests = <<>>
    /\ \A k \in 1..Len(requests) : requests[k].namespace # None
    /\ (/\ op \in DOMAIN NamespacesUsed
        /\ op = "get_pod_log" => args.namespace = None
        /\ \E n \in NamespacesUsed[op] : ~Configured(client[n]))
            => outcome = "ConfigurationError" /\ requests = <<>>

(* positions of the requests of one kind among those of the last call *)
Sent(kind) == {k \in 1..Len(requests) : requests[k].kind = kind}

(* the status the master answered the log request with *)
LogAnswered ==
    /\ op \in {"get_pod_log", "get_job_log"}
    /\ Sent("get_log") # {}

(* C15, as stated: 404 raises NotFoundException, 400 returns None, every   *)
(* other status outside 200..299 propagates as a generic request failure   *)
(* and a status in 200..299 returns the response text.                     *)
C15_StatusMapsToOneOutcome ==
    LogAnswered =>
        outcome = IF answers.status_code = 404 THEN "NotFoundException"
                  ELSE IF answers.status_code = 400 THEN "returned None"
                  ELSE IF answers.status_code \in 200..299 THEN "returned"
                  ELSE "HTTPError"

(* C15, amended: 404 raises NotFoundException, 400 returns None, every     *)
(* other status from 400 to 599 propagates as a generic request failure,   *)
(* and every remaining status, in 200..299 or not, returns the response    *)
(* text; 404 and 400 are never reported as a generic failure.              *)
C15_ErrorStatusMapsToOneOutcome ==
    LogAnswered =>
        outcome = IF answers.status_code = 404 THEN "NotFoundException"
                  ELSE IF answers.status_code = 400 THEN "returned None"
                  ELSE IF answers.status_code \in 400..599 THEN "HTTPError"
                  ELSE "returned"

C15_Witness ==
    /\ op = "get_pod_log"
    /\ Sent("get_log") # {}
    /\ answers.status_code = 404
    /\ outcome = "NotFoundException"

C15_WitnessNotModified ==
    /\ op = "get_pod_log"
    /\ Sent("get_log") # {}
    /\ answers.status_code = 304
    /\ outcome = "returned"

TemplateOps ==
    {"create_inspection_imagestream", "create_inspection_buildconfig",
     "run_inspection_job", "get_solver_names", "run_solver",
     "run_package_extract", "run_dependency_monkey", "run_adviser",
     "run_provenance_checker"}

(* the label selector was answered with a number of templates other than 1 *)
InvalidTemplateCount ==
    /\ op \in TemplateOps
    /\ Sent("get_template") # {}
    /\ answers.fetch_ok
    /\ answers.templates # 1

(* C16: when the label selector matches no template or more than one,      *)
(* every template-based operation ends with RuntimeError and sends neither *)
(* a process-template POST nor an object create.                           *)
C16_InvalidTemplateCountRaises ==
    InvalidTemplateCount =>
        /\ outcome = "RuntimeError"
        /\ Sent("process_template") = {}
        /\ Sent("create") = {}

C16_Witness ==
    /\ InvalidTemplateCount
    /\ op = "run_adviser"
    /\ answers.templates > 1
    /\ outcome = "RuntimeError"

C16_WitnessNoTemplate ==
    /\ InvalidTemplateCount
    /\ op = "run_solver"
    /\ answers.templates = 0
    /\ outcome = "RuntimeError"

RunOps ==
    {"run_sync", "run_inspection_job", "run_solver", "run_package_extract",
     "run_dependency_monkey", "run_adviser", "run_provenance_checker"}

(* the keyword arguments the last call handed to set_template_parameters *)
ParametersSet ==
    CASE op \in {"create_inspection_buildconfig", "run_inspection_job"} ->
            InspectionParameters(args.optional)
      [] op = "run_solver" -> SolverParameters(args.optional)
      [] op = "run_package_extract" ->
            PackageExtractParameters \o RegistryCredentials(args.optional)
      [] op = "run_dependency_monkey" ->
            DependencyMonkeyParameters(args.optional)
      [] op = "run_adviser" -> AdviserParameters(args.optional)
      [] op = "run_provenance_checker" -> ProvenanceCheckerParameters
      [] OTHER -> <<>>

(* fetch, then process, then create; the processed body holds every        *)
(* parameter the call set, with the value the upsert stores for it         *)
FetchProcessCreate ==
    /\ \A k \in Sent("process_template") :
        /\ \E j \in Sent("get_template") : j < k
        /\ answers.fetch_ok /\ answers.templates = 1
        /\ \A p \in 1..Len(ParametersSet) :
            /\ HasName(requests[k].body, ParametersSet[p].name)
            /\ ValueIn(requests[k].body, ParametersSet[p].name) =
                    Coerced(ParametersSet[p].value)
    /\ \A k \in Sent("create") :
        /\ \E j \in Sent("process_template") : j < k
        /\ answers.process_ok

(* C17, as stated: every run_* operation fetches the template by label,    *)
(* sets the parameters, POSTs the process-template request and creates the *)
(* object, in this order.                                                  *)
C17_EveryRunFetchProcessCreate ==
    op \in RunOps => FetchProcessCreate

(* C17, amended: every run_* operation other than run_sync creates an      *)
(* object only after the process POST of the same call succeeded, sends    *)
(* the process POST only after the template fetch returned exactly one     *)
(* template, and sends in its body all parameters the call set.            *)
C17_TemplateRunFetchProcessCreate ==
    op \in RunOps \ {"run_sync"} => FetchProcessCreate

C17_Witness ==
    /\ op = "run_adviser"
    /\ args.optional
    /\ answers.template.has_parameters
    /\ Sent("process_template") # {}
    /\ Sent("create") # {}
    /\ outcome = "returned"

C17_WitnessSync ==
    /\ op = "run_sync"
    /\ Sent("create") # {}
    /\ Sent("process_template") = {}

(* the master answered request k of the last call with a failure *)
Failed(k) ==
    CASE requests[k].kind \in {"get_template", "get_cronjob", "get_pods"} ->
            ~answers.fetch_ok
      [] requests[k].kind = "process_template" -> ~answers.process_ok
      [] requests[k].kind \in {"create", "create_configmap"} ->
            ~answers.create_ok
      [] OTHER -> answers.status_code >= 400

RequestKinds ==
    {"get_template", "get_cronjob", "get_pods", "process_template",
     "create", "create_configmap", "get_log", "get_build",
     "get_buildconfig", "get_build_log"}

(* C18: no request is sent twice in one call (run_solver creates each      *)
(* selected object once), and a failed request is the last request of its  *)
(* call, which then does not return normally.                              *)
C18_NoRetries ==
    /\ \A j, k \in 1..Len(requests) : j # k => requests[j] # requests[k]
    /\ \A kind \in RequestKinds \ {"create"} : Cardinality(Sent(kind)) <= 1
    /\ Cardinality(Sent("create")) <=
            IF op = "run_solver" THEN Len(answers.objects) ELSE 1
    /\ \A k \in 1..Len(requests) :
            Failed(k) => k = Len(requests) /\ outcome # "returned"

C18_Witness ==
    /\ op = "run_adviser"
    /\ ~answers.process_ok
    /\ Len(requests) = 2
    /\ Failed(2)
    /\ outcome = "HTTPError"

C18_WitnessSolver ==
    /\ op = "run_solver"
    /\ Cardinality(Sent("create")) = 2
    /\ outcome = "returned"

(* the token of the object after any number of calls *)
TokenState ==
    /\ token_reads <= 1
    /\ client._token = "supplied-token" => token_reads = 0
    /\ token_reads = 0 /\ client._token # "supplied-token"
            => client._token = None
    /\ token_reads = 1 =>
            client._token = IF client.in_cluster THEN "service-account-token"
                            ELSE "local-token"
    /\ \A k \in 1..Len(requests) :
            requests[k].bearer # None => requests[k].bearer = client._token

(* what a step may change of the object *)
TokenStep ==
    /\ client._token # None => client'._token = client._token
    /\ \A field \in DOMAIN client \ {"_token"} :
            client'[field] = client[field]

(* C19: the token source is read at most once per object, never when a     *)
(* token was supplied at construction; every request carrying a token      *)
(* carries the cached one, which never changes once set; nothing else of   *)
(* the object changes.                                                     *)
C19_TokenLazyAndCached == []TokenState /\ [][TokenStep]_vars

C19_Witness ==
    /\ token_reads = 1
    /\ client._token = "service-account-token"
    /\ op = "get_pod_log"
    /\ \E k \in 1..Len(requests) : requests[k].bearer = client._token

C19_WitnessSupplied ==
    /\ token_reads = 0
    /\ client._token = "supplied-token"
    /\ \E k \in 1..Len(requests) : requests[k].bearer = "supplied-token"

(* C20: get_job_log looks the pod up in the namespace it then asks for the *)
(* pod's log in, whether the namespace argument is given or omitted.       *)
C20_JobLogSameNamespace ==
    op = "get_job_log" =>
        \A j \in Sent("get_pods"), k \in Sent("get_log") :
            requests[j].namespace = requests[k].namespace

ScheduleOps ==
    {"schedule_inspection_job", "schedule_dependency_monkey",
     "schedule_adviser", "schedule_provenance_checker"}

(* the run_* method a schedule_* operation stands for, the namespace it    *)
(* works in and the prefix of the ids it generates                         *)
Scheduled ==
    [schedule_inspection_job |->
        [method |-> "run_inspection_job",
         namespace |-> "amun_inspection_namespace", prefix |-> "inspection"],
     schedule_dependency_monkey |->
        [method |-> "run_dependency_monkey",
         namespace |-> "middletier_namespace",
         prefix |-> "dependency-monkey"],
     schedule_adviser |->
        [method |-> "run_adviser",
         namespace |-> "backend_namespace", prefix |-> "adviser"],
     schedule_provenance_checker |->
        [method |-> "run_provenance_checker",
         namespace |-> "backend_namespace",
         prefix |-> "provenance-checker"]]

(* text holds part *)
Contains(text, part) ==
    \E k \in 1..(Len(text) - Len(part) + 1) :
        SubSeq(text, k, k + Len(part) - 1) = part

(* the serialized parameters give key the string value *)
Records(text, key, value) ==
    Contains(text, "\"" \o key \o "\": \"" \o value \o "\"")

(* the serialized parameters have the key *)
RecordsKey(text, key) == Contains(text, "\"" \o key \o "\": ")

(* a schedule_* operation was called with its namespace configured *)
ScheduleCalled ==
    /\ op \in ScheduleOps
    /\ Configured(client[Scheduled[op].namespace])

(* one request, the create of the ConfigMap the workload operator expects, *)
(* named with the id the call returns: the job_id given, else a generated  *)
(* one                                                                     *)
OneConfigMap ==
    /\ Len(requests) = 1
    /\ Sent("get_template") = {}
    /\ requests[1].kind = "create_configmap"
    /\ requests[1].namespace = client[Scheduled[op].namespace]
    /\ ValueIn(requests[1].body, "app") = PyStr("thoth")
    /\ ValueIn(requests[1].body, "operator") = PyStr("workload")
    /\ ValueIn(requests[1].body, "method") = PyStr(Scheduled[op].method)
    /\ outcome = "returned" =>
            PyStr(returned.id) = ValueIn(requests[1].body, "name")
    /\ args.job_id # None =>
            ValueIn(requests[1].body, "name") = PyStr(args.job_id)
    /\ args.job_id = None =>
            \E number \in RandomBits :
                ValueIn(requests[1].body, "name") =
                    PyStr(Scheduled[op].prefix \o "-"
                          \o ZeroPadded(NatToHex(number), 16))

(* the serialized parameters record the ConfigMap's name as job_id *)
JobIdRecorded ==
    Records(ValueIn(requests[1].body, "parameters").s, "job_id",
            ValueIn(requests[1].body, "name").s)

(* C21, as stated: every schedule_* operation with its namespace           *)
(* configured sends one request, the create of a ConfigMap labelled        *)
(* app=thoth, operator=workload whose method names the run_* method,       *)
(* fetches no template, returns the ConfigMap's name, uses a given job_id  *)
(* verbatim and else a generated one, and records that id as job_id in the *)
(* serialized parameters.                                                  *)
C21_ScheduleRecordsReturnedId ==
    ScheduleCalled => OneConfigMap /\ JobIdRecorded

(* C21, amended: as stated for schedule_dependency_monkey,                 *)
(* schedule_adviser and schedule_provenance_checker; schedule_inspection_job *)
(* sends the same single create, named with its inspection_id, but its     *)
(* serialized parameters hold no job_id.                                   *)
C21_ScheduleRecordsIdButInspection ==
    ScheduleCalled =>
        /\ OneConfigMap
        /\ IF op = "schedule_inspection_job"
           THEN ~RecordsKey(ValueIn(requests[1].body, "parameters").s,
                            "job_id")
           ELSE JobIdRecorded

C21_Witness ==
    /\ ScheduleCalled
    /\ op = "schedule_adviser"
    /\ args.job_id = None
    /\ outcome = "returned"
    /\ returned.id = "adviser-00000000000000ff"
    /\ JobIdRecorded

C21_WitnessGiven ==
    /\ ScheduleCalled
    /\ op = "schedule_dependency_monkey"
    /\ args.job_id = "job-1"
    /\ outcome = "returned"
    /\ returned.id = "job-1"

C21_WitnessInspection ==
    /\ ScheduleCalled
    /\ op = "schedule_inspection_job"
    /\ outcome = "returned"
    /\ returned.id = args.job_id

(* run_solver returned after processing the template *)
SolverReturned ==
    /\ op = "run_solver"
    /\ outcome = "returned"

(* positions in template["objects"] of the objects the solver argument     *)
(* selects                                                                 *)
Selected ==
    {k \in 1..Len(answers.objects) :
        args.solver = None \/ answers.objects[k] = args.solver}

(* position in template["objects"] of the object create request k sent *)
Created(k) == ValueIn(requests[k].body, "objects").i + 1

(* the last selected object carrying the component label *)
LastSelected(component) ==
    CHOOSE k \in Selected :
        /\ answers.objects[k] = component
        /\ \A j \in Selected : answers.objects[j] = component => j <= k

(* the first selected object carrying the component label *)
FirstSelected(component) ==
    CHOOSE k \in Selected :
        /\ answers.objects[k] = component
        /\ \A j \in Selected : answers.objects[j] = component => k <= j

(* C22: run_solver creates exactly the objects of the processed template   *)
(* the solver argument selects, every object without a solver, those with  *)
(* the component label with one, possibly none; the mapping it returns has *)
(* one key per component label of a created object, with the name of the   *)
(* pod created for it, in template object order.                           *)
C22_SolverCreatesSelected ==
    SolverReturned =>
        /\ {Created(k) : k \in Sent("create")} = Selected
        /\ Cardinality(Sent("create")) = Cardinality(Selected)
        /\ \A j, k \in Sent("create") : j < k => Created(j) < Created(k)
        /\ {returned.solvers[k].key : k \in 1..Len(returned.solvers)} =
                {answers.objects[k] : k \in Selected}
        /\ \A j, k \in 1..Len(returned.solvers) :
                j < k => FirstSelected(returned.solvers[j].key) <
                            FirstSelected(returned.solvers[k].key)
        /\ \A k \in 1..Len(returned.solvers) :
                returned.solvers[k].value =
                    PodName(LastSelected(returned.solvers[k].key))

C22_Witness ==
    /\ SolverReturned
    /\ args.solver = "solver-f27"
    /\ answers.objects = <<"solver-rhel8", "solver-f27">>
    /\ Sent("create") # {}
    /\ returned.solvers = <<[key |-> "solver-f27", value |-> PodName(2)]>>

C22_WitnessAll ==
    /\ SolverReturned
    /\ args.solver = None
    /\ Cardinality(Sent("create")) = 2
    /\ Len(returned.solvers) = 2

C22_WitnessNone ==
    /\ SolverReturned
    /\ args.solver # None
    /\ answers.objects # <<>>
    /\ Sent("process_template") # {}
    /\ Sent("create") = {}
    /\ returned.solvers = <<>>

====
